---- MODULE Spec2Model ----
(***************************************************************************)
(* Model of the TodoList component (src/src/components/TodoList.tsx): the  *)
(* ordered collection `todos`, its handlers (addTodo, toggleTodo,          *)
(* deleteTodo, handleDragEnd, the deferred animation timer), the load and  *)
(* save effects and the localStorage slot "todos".                         *)
(*                                                                         *)
(* React's scheduling is modelled as follows: a handler runs against the   *)
(* state committed by the latest render; the render that follows a state   *)
(* change and the save effect it schedules run before the next handler or  *)
(* timer callback, so each action is a handler together with that render   *)
(* and that effect.  An exception thrown while rendering, in a state       *)
(* updater or out of an effect unmounts the component: pc = "crashed".     *)
(***************************************************************************)
EXTENDS Integers, Sequences, FiniteSets, TLC

\* ---------------------------------------------------------------- bounds
\* Largest id addTodo may assign (so at most MaxId records are added ids).
MaxId == 3
\* Longest text typed into the input.
MaxTextLen == 1
\* Largest number of animation timers pending at once.
MaxTimers == 1
\* Largest number of writes to the slot that fail (quota exceeded).
MaxFailures == 1

\* ---------------------------------------------------------------- values
Chars == {" ", "a"}
Whitespace == {" "}

RECURSIVE SeqsUpTo(_, _)
SeqsUpTo(S, n) ==
    IF n = 0 THEN {<<>>}
    ELSE LET shorter == SeqsUpTo(S, n - 1)
         IN  shorter \cup {Append(s, c) : s \in {t \in shorter : Len(t) = n - 1}, c \in S}

\* What the user can type into the input.
Texts == SeqsUpTo(Chars, MaxTextLen)

\* Ids a gesture can name: ids of records that are, or once were, rendered.
Ids == 1 .. MaxId

\* String.prototype.trim: strips leading and trailing whitespace.
RECURSIVE TrimStart(_)
TrimStart(s) ==
    IF s # <<>> /\ Head(s) \in Whitespace THEN TrimStart(Tail(s)) ELSE s

RECURSIVE TrimEnd(_)
TrimEnd(s) ==
    IF s # <<>> /\ s[Len(s)] \in Whitespace
    THEN TrimEnd(SubSeq(s, 1, Len(s) - 1))
    ELSE s

\* Mutant of Trim: the text is compared as typed.
Trim_None(s) == s

Trim(s) == TrimEnd(TrimStart(s))

\* A Todo record.  isAnimating is "undefined" while the optional key is absent.
Todo(id, text, completed, isAnimating) ==
    [id |-> id, text |-> text, completed |-> completed, isAnimating |-> isAnimating]

\* ------------------------------------------------------------------ JSON
\* A JSON text is modelled by its kind and, for an array of objects, the
\* members of each object in key order.  Kinds of slot content:
\*   "absent"  getItem returns null          "empty"   the empty string
\*   "garbage" text JSON.parse rejects       "null" "object" "number" "string"
\*   "array"   an array of objects           (valid JSON of that shape)
JNum(n)  == [t |-> "number",  n |-> n, s |-> <<>>, b |-> FALSE]
JStr(s)  == [t |-> "string",  n |-> 0, s |-> s,    b |-> FALSE]
JBool(b) == [t |-> "boolean", n |-> 0, s |-> <<>>, b |-> b]
Member(k, v) == [key |-> k, val |-> v]

Content(kind, items) == [kind |-> kind, items |-> items]
Absent == Content("absent", <<>>)

\* JSON.stringify of one record: keys in insertion order, a key whose value is
\* undefined is left out.
StringifyTodo(todo) ==
    << Member("id", JNum(todo.id)),
       Member("text", JStr(todo.text)),
       Member("completed", JBool(todo.completed)) >>
    \o (IF todo.isAnimating = "undefined" THEN <<>>
        ELSE << Member("isAnimating", JBool(todo.isAnimating = "true")) >>)

\* JSON.stringify(todos)
JSONstringify(items) ==
    Content("array", [i \in DOMAIN items |-> StringifyTodo(items[i])])

HasKey(obj, k) == \E i \in DOMAIN obj : obj[i].key = k
ValueOf(obj, k) == obj[CHOOSE i \in DOMAIN obj : obj[i].key = k].val

\* The record JSON.parse builds from one object of the array.
ParseTodo(obj) ==
    Todo(ValueOf(obj, "id").n,
         ValueOf(obj, "text").s,
         ValueOf(obj, "completed").b,
         IF HasKey(obj, "isAnimating")
         THEN (IF ValueOf(obj, "isAnimating").b THEN "true" ELSE "false")
         ELSE "undefined")

\* JSON.parse(text): a SyntaxError for text that is not JSON, else the value.
JSONparse(content) ==
    CASE content.kind \in {"garbage", "empty"} -> Content("SyntaxError", <<>>)
      [] content.kind = "array" ->
            Content("array", [i \in DOMAIN content.items |-> ParseTodo(content.items[i])])
      [] OTHER -> Content(content.kind, <<>>)

\* A string is truthy unless it is empty; null is falsy.
Truthy(content) == content.kind \notin {"absent", "empty"}

\* The state update the load effect queues: "none" when setTodos is not called.
NoUpdate == Content("none", <<>>)

\* Mutant of LoadTodos: no try/catch, the SyntaxError leaves the effect.
LoadTodos_NoCatch(content) ==
    IF Truthy(content) THEN JSONparse(content) ELSE NoUpdate

\* Mutant of LoadTodos: only the records not completed are restored.
LoadTodos_ActiveOnly(content) ==
    IF Truthy(content)
    THEN LET parsed == JSONparse(content)
             Keep(todo) == ~todo.completed
         IN  IF parsed.kind = "SyntaxError" THEN NoUpdate
             ELSE Content(parsed.kind, SelectSeq(parsed.items, Keep))
    ELSE NoUpdate

\* The load effect: getItem, and JSON.parse inside try/catch.
LoadTodos(content) ==
    IF Truthy(content)
    THEN LET parsed == JSONparse(content)
         IN  IF parsed.kind = "SyntaxError" THEN NoUpdate ELSE parsed
    ELSE NoUpdate

\* ------------------------------------------------------- pure functions
Max(S) == CHOOSE x \in S : \A y \in S : y <= x

IdsOf(items) == {items[i].id : i \in DOMAIN items}

\* Mutant of GenerateId: the size of the collection + 1.
GenerateId_SizePlusOne(items) == Len(items) + 1

\* generateId: max of the ids + 1, or 1 for an empty collection.
GenerateId(items) ==
    IF Len(items) > 0 THEN Max(IdsOf(items)) + 1 ELSE 1

\* The record addTodo builds.
NewTodoRecord(items, text) == Todo(GenerateId(items), text, FALSE, "undefined")

\* addTodo's new collection: [...todos, todo]
AddTodoResult(items, text) == Append(items, NewTodoRecord(items, text))

\* Mutant of ToggleTodoResult: the record is marked completed, not flipped.
ToggleTodoResult_SetTrue(items, id) ==
    [i \in DOMAIN items |->
        IF items[i].id = id
        THEN [items[i] EXCEPT !.completed = TRUE, !.isAnimating = "true"]
        ELSE items[i]]

\* Mutant of ToggleTodoResult: the record is rebuilt without the spread, so
\* its text is lost.
ToggleTodoResult_NoSpread(items, id) ==
    [i \in DOMAIN items |->
        IF items[i].id = id
        THEN Todo(id, <<>>, ~items[i].completed, "true")
        ELSE items[i]]

\* toggleTodo's map: the record with this id gets completed flipped and
\* isAnimating set.
ToggleTodoResult(items, id) ==
    [i \in DOMAIN items |->
        IF items[i].id = id
        THEN [items[i] EXCEPT !.completed = ~items[i].completed, !.isAnimating = "true"]
        ELSE items[i]]

\* The timer callback's map: isAnimating reset on the record with this id.
TimerResult(items, id) ==
    [i \in DOMAIN items |->
        IF items[i].id = id THEN [items[i] EXCEPT !.isAnimating = "false"] ELSE items[i]]

\* Mutant of DeleteTodoResult: the id is taken for a position (splice).
DeleteTodoResult_AtIndex(items, id) ==
    IF id > Len(items) THEN items
    ELSE [i \in 1 .. Len(items) - 1 |-> IF i < id THEN items[i] ELSE items[i + 1]]

\* deleteTodo's filter (Array.prototype.filter is SelectSeq).
DeleteTodoResult(items, id) ==
    LET Keep(todo) == todo.id # id IN SelectSeq(items, Keep)

\* The two views.
ActiveTodos(items) ==
    LET Keep(todo) == ~todo.completed IN SelectSeq(items, Keep)

\* Mutant of CompletedTodos: the completed records, latest first.
CompletedTodos_Reversed(items) ==
    LET Keep(todo) == todo.completed
        kept == SelectSeq(items, Keep)
    IN  [i \in DOMAIN kept |-> kept[Len(kept) + 1 - i]]

CompletedTodos(items) ==
    LET Keep(todo) == todo.completed IN SelectSeq(items, Keep)

\* Array.prototype.findIndex, 1-based: 0 stands for the code's -1.
FindIndex(items, id) ==
    IF \E i \in DOMAIN items : items[i].id = id
    THEN CHOOSE i \in DOMAIN items :
            items[i].id = id /\ \A j \in DOMAIN items : items[j].id = id => i <= j
    ELSE 0

\* Mutant of ArrayMove: the target index is corrected for the removal, so a
\* record moved down lands one slot short.
ArrayMove_Adjusted(array, from, to) ==
    LET without == SubSeq(array, 1, from - 1) \o SubSeq(array, from + 1, Len(array))
        at == IF from < to THEN to - 1 ELSE to
    IN  SubSeq(without, 1, at - 1) \o <<array[from]>> \o SubSeq(without, at, Len(without))

\* arrayMove of @dnd-kit/sortable, 1-based and for indices inside the array:
\* the element at `from` is spliced out and spliced back in at `to`.
ArrayMove(array, from, to) ==
    LET without == SubSeq(array, 1, from - 1) \o SubSeq(array, from + 1, Len(array))
    IN  SubSeq(without, 1, to - 1) \o <<array[from]>> \o SubSeq(without, to, Len(without))

\* handleDragEnd's updater reads items[activeIndex].completed and
\* items[overIndex].completed: a TypeError when either index is -1.
DragEndThrows(items, activeId, overId) ==
    FindIndex(items, activeId) = 0 \/ FindIndex(items, overId) = 0

\* Mutant of SamePartition: no guard.
SamePartition_Unguarded(items, activeId, overId) == TRUE

\* The partition guard of the updater.
SamePartition(items, activeId, overId) ==
    items[FindIndex(items, activeId)].completed = items[FindIndex(items, overId)].completed

\* Mutant of DragEndResult: the two records change places.
DragEndResult_Swap(items, activeId, overId) ==
    IF SamePartition(items, activeId, overId)
    THEN [i \in DOMAIN items |->
            IF i = FindIndex(items, activeId) THEN items[FindIndex(items, overId)]
            ELSE IF i = FindIndex(items, overId) THEN items[FindIndex(items, activeId)]
            ELSE items[i]]
    ELSE items

\* The updater's result when it does not throw.
DragEndResult(items, activeId, overId) ==
    IF SamePartition(items, activeId, overId)
    THEN ArrayMove(items, FindIndex(items, activeId), FindIndex(items, overId))
    ELSE items

\* Rendering computes todos.filter(...): a TypeError unless todos is an array.
RenderThrows(value) == value.kind # "array"

\* event.over is null when the drag ends over no droppable.
NoOver == 0

\* ----------------------------------------------------------------- state
VARIABLES
    todos,          \* the committed state of useState<Todo[]>
    newTodo,        \* the text in the input
    showCompleted,  \* the completed-section visibility flag
    slot,           \* the content of localStorage["todos"]
    pc,             \* "mount": first render done, effects still to run;
                    \* "commit": the update the load effect queued renders
                    \* next; "idle": waiting for a gesture or a timer;
                    \* "crashed": unmounted by an exception
    update,         \* the state update queued by the load effect
    timers,         \* ids of the pending setTimeout callbacks, oldest first
    failures,       \* how many writes to the slot have failed
    saveFailed,     \* the latest run of the save effect logged an error
    hist            \* history: the latest mount (the collection of the
                    \* instance it replaced, what its load effect read) or,
                    \* where handlers are recorded, the latest handler and
                    \* its arguments and, for each pending timer, whether
                    \* the record it was started for has been deleted

vars == <<todos, newTodo, showCompleted, slot, pc, update, timers, failures,
          saveFailed, hist>>

NoHist ==
    [op |-> "none", a |-> 0, b |-> 0, text |-> <<>>, pre |-> <<>>,
     synced |-> FALSE, read |-> "none", gone |-> <<>>]

Op(name, a, b) == [NoHist EXCEPT !.op = name, !.a = a, !.b = b]

\* What a handler leaves in the history: its record when rec, else nothing.
Rec(rec, h) == IF rec THEN h ELSE NoHist

\* The history of the pending timers after deleteTodo(id): the timers started
\* for the record that goes are marked.
GoneAfterDelete(id) ==
    [i \in DOMAIN hist.gone |->
        hist.gone[i] \/ (timers[i] = id /\ id \in IdsOf(todos))]

\* A collection an earlier session left in the slot: out of id order, one
\* record saved while its animation flag was set.
StoredTodos ==
    << Todo(2, <<"a">>, TRUE, "true"), Todo(1, <<"a">>, FALSE, "undefined") >>

\* What the slot may hold when the component is first mounted.
InitialSlots ==
    {Content(k, <<>>) :
        k \in {"absent", "empty", "garbage", "null", "object", "number", "string"}}
    \cup {JSONstringify(StoredTodos)}

\* The first render of a mounted component: useState's initial values, both
\* effects still to run.
Init ==
    /\ todos = <<>>
    /\ newTodo = <<>>
    /\ showCompleted = TRUE
    /\ slot \in InitialSlots
    /\ pc = "mount"
    /\ update = NoUpdate
    /\ timers = <<>>
    /\ failures = 0
    /\ saveFailed = FALSE
    /\ hist = Op("mount", 0, 0)

\* --------------------------------------------------------------- effects
\* Mutant of SetItem: the active view is written.
SetItem_ActiveOnly(items) ==
    LET Keep(todo) == ~todo.completed IN JSONstringify(SelectSeq(items, Keep))

\* What setItem leaves in the slot.
SetItem(items) == JSONstringify(items)

\* Mutant of SaveEffectThrows: no try/catch around setItem.
SaveEffectThrows_NoCatch(ok) == ~ok

\* The save effect wraps setItem in try/catch: a write that throws is logged
\* and the effect returns normally.
SaveEffectThrows(ok) == FALSE

\* Whether the write of this step may have the outcome ok: a write fails at
\* most MaxFailures times.
MayWrite(ok) == ok \/ failures < MaxFailures

\* A step in which the save effect does not run has no write to fail.
NoWrite(ok) == ok /\ UNCHANGED <<slot, failures, saveFailed>>

\* The save effect, run with `items` as the rendered todos; ok: setItem
\* succeeds (it throws when the quota is exceeded).
SaveEffect(items, ok) ==
    /\ slot' = IF ok THEN SetItem(items) ELSE slot
    /\ failures' = IF ok THEN failures ELSE failures + 1
    /\ saveFailed' = ~ok

\* Where control goes after a render whose save effect ran.
AfterEffects(ok) == IF SaveEffectThrows(ok) THEN "crashed" ELSE "idle"

\* The effects of the first render: the load effect, then the save effect
\* (which still sees todos = []).
MountEffects(ok) ==
    /\ pc = "mount"
    /\ MayWrite(ok)
    /\ update' = LoadTodos(slot)
    /\ SaveEffect(todos, ok)
    /\ pc' = IF SaveEffectThrows(ok) \/ update'.kind = "SyntaxError" THEN "crashed"
             ELSE IF update' = NoUpdate THEN "idle" ELSE "commit"
    /\ hist' = [hist EXCEPT !.read = slot.kind]
    /\ UNCHANGED <<todos, newTodo, showCompleted, timers>>

\* The render of the update the load effect queued, setTodos(JSON.parse(..)),
\* and the save effect after it.
CommitLoaded(ok) ==
    /\ pc = "commit"
    /\ MayWrite(ok)
    /\ update' = NoUpdate
    /\ IF RenderThrows(update)
       THEN /\ pc' = "crashed"
            /\ NoWrite(ok)
            /\ UNCHANGED todos
       ELSE /\ todos' = update.items
            /\ SaveEffect(todos', ok)
            /\ pc' = AfterEffects(ok)
    /\ UNCHANGED <<newTodo, showCompleted, timers, hist>>

\* Mutant of Reload: the visibility flag outlives the instance.
Reload_KeepsFlag ==
    /\ pc \in {"idle", "crashed", "commit"}
    /\ todos' = <<>>
    /\ newTodo' = <<>>
    /\ pc' = "mount"
    /\ update' = NoUpdate
    /\ timers' = <<>>
    /\ saveFailed' = FALSE
    /\ hist' = [Op("mount", 0, 0) EXCEPT !.pre = todos,
                                         !.synced = (slot = JSONstringify(todos))]
    /\ UNCHANGED <<showCompleted, slot, failures>>

\* The page is loaded again: a fresh instance, the slot as it was left.
Reload ==
    /\ pc \in {"idle", "crashed", "commit"}
    /\ todos' = <<>>
    /\ newTodo' = <<>>
    /\ showCompleted' = TRUE
    /\ pc' = "mount"
    /\ update' = NoUpdate
    /\ timers' = <<>>
    /\ saveFailed' = FALSE
    /\ hist' = [Op("mount", 0, 0) EXCEPT !.pre = todos,
                                         !.synced = (slot = JSONstringify(todos))]
    /\ UNCHANGED <<slot, failures>>

\* -------------------------------------------------------------- handlers
\* The user types `text` into the input (onChange) and presses the Add button
\* or Enter (addTodo).  The input is read by addTodo alone, so typing is taken
\* together with the press that follows it.
AddTodo(text, ok, rec) ==
    /\ pc = "idle"
    /\ MayWrite(ok)
    /\ hist' = Rec(rec, [Op("add", 0, 0) EXCEPT !.text = text, !.gone = hist.gone])
    /\ IF Trim(text) = <<>>
       THEN /\ newTodo' = text
            /\ NoWrite(ok)
            /\ UNCHANGED <<todos, pc>>
       ELSE /\ GenerateId(todos) <= MaxId
            /\ todos' = AddTodoResult(todos, text)
            /\ newTodo' = <<>>
            /\ SaveEffect(todos', ok)
            /\ pc' = AfterEffects(ok)
    /\ UNCHANGED <<showCompleted, update, timers>>

\* toggleTodo(id): the map, and the timer it starts.
ToggleTodo(id, ok, rec) ==
    /\ pc = "idle"
    /\ MayWrite(ok)
    /\ Len(timers) < MaxTimers
    /\ todos' = ToggleTodoResult(todos, id)
    /\ timers' = Append(timers, id)
    /\ SaveEffect(todos', ok)
    /\ pc' = AfterEffects(ok)
    /\ hist' = Rec(rec, [Op("toggle", id, 0) EXCEPT !.gone = Append(hist.gone, FALSE)])
    /\ UNCHANGED <<newTodo, showCompleted, update>>

\* The callback of the oldest timer (all timers have the same delay).
TimerFires(ok, rec) ==
    /\ pc = "idle"
    /\ MayWrite(ok)
    /\ timers # <<>>
    /\ todos' = TimerResult(todos, Head(timers))
    /\ timers' = Tail(timers)
    /\ SaveEffect(todos', ok)
    /\ pc' = AfterEffects(ok)
    /\ hist' = Rec(rec, [Op("timer", Head(timers), 0) EXCEPT !.gone = Tail(hist.gone)])
    /\ UNCHANGED <<newTodo, showCompleted, update>>

\* deleteTodo(id)
DeleteTodo(id, ok, rec) ==
    /\ pc = "idle"
    /\ MayWrite(ok)
    /\ todos' = DeleteTodoResult(todos, id)
    /\ SaveEffect(todos', ok)
    /\ pc' = AfterEffects(ok)
    /\ hist' = Rec(rec, [Op("delete", id, 0) EXCEPT !.gone = GoneAfterDelete(id)])
    /\ UNCHANGED <<newTodo, showCompleted, update, timers>>

\* handleDragEnd with active.id = activeId and over.id = overId (over = null
\* when overId = NoOver).  An updater that returns `items` itself leaves the
\* state as it is: no render, no save.
HandleDragEnd(activeId, overId, ok, rec) ==
    /\ pc = "idle"
    /\ MayWrite(ok)
    /\ hist' = Rec(rec, [Op("drag", activeId, overId) EXCEPT !.gone = hist.gone])
    /\ IF overId = NoOver \/ activeId = overId
       THEN /\ NoWrite(ok)
            /\ UNCHANGED <<todos, pc>>
       ELSE IF DragEndThrows(todos, activeId, overId)
            THEN /\ pc' = "crashed"
                 /\ NoWrite(ok)
                 /\ UNCHANGED todos
            ELSE IF SamePartition(todos, activeId, overId)
                 THEN /\ todos' = DragEndResult(todos, activeId, overId)
                      /\ SaveEffect(todos', ok)
                      /\ pc' = AfterEffects(ok)
                 ELSE /\ todos' = DragEndResult(todos, activeId, overId)
                      /\ NoWrite(ok)
                      /\ UNCHANGED pc
    /\ UNCHANGED <<newTodo, showCompleted, update, timers>>

\* toggleCompletedVisibility; its button is rendered while there are
\* completed records.
ToggleCompletedVisibility ==
    /\ pc = "idle"
    /\ Len(CompletedTodos(todos)) > 0
    /\ showCompleted' = ~showCompleted
    /\ hist' = [NoHist EXCEPT !.gone = hist.gone]
    /\ UNCHANGED <<todos, newTodo, slot, pc, update, timers, failures, saveFailed>>

\* A step of the collection of a mounted instance: ok, whether the write of the save effect
\* succeeds; rec, whether handlers are recorded in the history.
Step(ok, rec) ==
    \/ MountEffects(ok)
    \/ CommitLoaded(ok)
    \/ \E text \in Texts : AddTodo(text, ok, rec)
    \/ \E id \in Ids : ToggleTodo(id, ok, rec)
    \/ TimerFires(ok, rec)
    \/ \E id \in Ids : DeleteTodo(id, ok, rec)
    \/ \E activeId \in Ids, overId \in Ids \cup {NoOver} :
          HandleDragEnd(activeId, overId, ok, rec)

\* The component over its sessions: the page may be loaded again, the
\* completed section shown and hidden.
Next ==
    \/ \E ok \in BOOLEAN : Step(ok, FALSE)
    \/ ToggleCompletedVisibility
    \/ Reload

Spec == Init /\ [][Next]_vars

\* The collection with a slot whose writes succeed, its handlers recorded in
\* the history.
NextOps ==
    \/ Step(TRUE, TRUE)
    \/ Reload

SpecOps == Init /\ [][NextOps]_vars

\* The collection over one session with a slot whose writes may fail, its
\* handlers recorded in the history.
NextQuota == \E ok \in BOOLEAN : Step(ok, TRUE)

SpecQuota == Init /\ [][NextQuota]_vars

\* The component over its sessions with a slot whose writes succeed, its
\* handlers recorded in the history (the history is "none" after
\* toggleCompletedVisibility alone).
NextView ==
    \/ Step(TRUE, TRUE)
    \/ ToggleCompletedVisibility
    \/ Reload

SpecView == Init /\ [][NextView]_vars

\* Texts typed on a first visit: blank ones, and one padded with whitespace.
TypedTexts == {<<>>, <<" ", " ">>, <<"a">>, <<" ", "a", " ">>}

\* The first mount of a first visit: nothing saved under "todos".
InitFresh == Init /\ slot = Absent

\* A first visit, its handlers recorded in the history (nothing is loaded,
\* so no loaded update renders).
NextFresh ==
    \/ MountEffects(TRUE)
    \/ \E text \in TypedTexts : AddTodo(text, TRUE, TRUE)
    \/ \E id \in Ids : ToggleTodo(id, TRUE, TRUE)
    \/ TimerFires(TRUE, TRUE)
    \/ \E id \in Ids : DeleteTodo(id, TRUE, TRUE)
    \/ \E activeId \in Ids, overId \in Ids \cup {NoOver} :
          HandleDragEnd(activeId, overId, TRUE, TRUE)

SpecFresh == InitFresh /\ [][NextFresh]_vars

\* ---------------------------------------------------------------- claims
\* Helpers of the claims' formulas.
IdSeq(items) == [i \in DOMAIN items |-> items[i].id]

UniqueIds(items) ==
    \A i, j \in DOMAIN items : items[i].id = items[j].id => i = j

\* The sequence without its element(s) equal to x.
Without(seq, x) == LET Keep(y) == y # x IN SelectSeq(seq, Keep)

\* The position of x in a sequence that holds it once.
PosOf(seq, x) == CHOOSE i \in DOMAIN seq : seq[i] = x

\* The view (completed or active) a record with this flag shows in.
View(items, completed) ==
    IF completed THEN CompletedTodos(items) ELSE ActiveTodos(items)

CompletedOf(items, id) == items[FindIndex(items, id)].completed

\* C1: addTodo with a text that is not blank after trimming appends exactly
\* one record: the old collection stays as the prefix, the new last record is
\* not completed and its id is max(existing ids) + 1 (1 for an empty
\* collection), an id no other record has.
C1_AddAppendsFreshRecord ==
    [][(hist'.op = "add" /\ Trim(hist'.text) # <<>>) =>
        /\ Len(todos') = Len(todos) + 1
        /\ SubSeq(todos', 1, Len(todos)) = todos
        /\ todos'[Len(todos')].completed = FALSE
        /\ todos'[Len(todos')].id =
              (IF todos = <<>> THEN 1 ELSE Max(IdsOf(todos)) + 1)
        /\ \A i \in 1 .. Len(todos) : todos'[i].id # todos'[Len(todos')].id]_vars

\* C1 witness: an add has run on a collection whose largest id is not its
\* size (record 1 was deleted from [1, 2]), giving id 3.
C1_Witness ==
    /\ hist.op = "add"
    /\ Trim(hist.text) # <<>>
    /\ IdSeq(todos) = <<2, 3>>

\* Both ids name records of the collection, in the same partition.
SamePartitionDrag(items, h) ==
    /\ h.op = "drag"
    /\ h.a # h.b
    /\ h.a \in IdsOf(items)
    /\ h.b \in IdsOf(items)
    /\ CompletedOf(items, h.a) = CompletedOf(items, h.b)

\* Array-move of record a to the place of record b, stated on a view:
\* `after` shows a where `before` showed b, and the other records in their
\* old order.
MovedInView(before, after, a, b) ==
    /\ Len(after) = Len(before)
    /\ {after[i].id : i \in DOMAIN after} = {before[i].id : i \in DOMAIN before}
    /\ after[PosOf(before, b)] = a
    /\ Without(after, a) = Without(before, a)

\* C2: a drag of a onto b, both in one partition: that partition's view
\* keeps its ids, shows a at the position b had in the view and the other
\* records in their old relative order (array-move on the view); the other
\* partition's view is the same sequence as before.
C2_ReorderWithinPartition ==
    [][SamePartitionDrag(todos, hist') =>
        /\ MovedInView(View(todos, CompletedOf(todos, hist'.a)),
                       View(todos', CompletedOf(todos, hist'.a)),
                       todos[FindIndex(todos, hist'.a)],
                       todos[FindIndex(todos, hist'.b)])
        /\ View(todos', ~CompletedOf(todos, hist'.a))
              = View(todos, ~CompletedOf(todos, hist'.a))]_vars

\* C2 witness: a drag has moved an active record across a completed one that
\* lies between two active records in the master sequence.
C2_Witness ==
    /\ hist.op = "drag"
    /\ Len(todos) = 3
    /\ IdSeq(todos) = <<2, 3, 1>>
    /\ hist.a = 1 /\ hist.b = 3
    /\ todos[1].completed /\ ~todos[2].completed /\ ~todos[3].completed

\* Both ids name records of the collection, in different partitions.
CrossPartitionDrag(items, h) ==
    /\ h.op = "drag"
    /\ h.a \in IdsOf(items)
    /\ h.b \in IdsOf(items)
    /\ CompletedOf(items, h.a) # CompletedOf(items, h.b)

\* C3: a drag between an active and a completed record, in either direction,
\* leaves the collection exactly as it was.
C3_CrossPartitionRejected ==
    [][CrossPartitionDrag(todos, hist') => todos' = todos /\ pc' = "idle"]_vars

\* C3 witness: a drag of a completed record onto an active one has run.
C3_Witness ==
    /\ CrossPartitionDrag(todos, hist)
    /\ CompletedOf(todos, hist.a)
    /\ pc = "idle"

\* A drag that names an id no record has.
AbsentIdDrag(items, h) ==
    /\ h.op = "drag"
    /\ h.b # NoOver
    /\ (h.a \notin IdsOf(items) \/ h.b \notin IdsOf(items))

\* C4 (as claimed): a drag in which activeId or overId is the id of no record
\* is a silent no-op: the collection is unchanged and no error is raised.
C4_AbsentIdDragIsNoOp ==
    [][AbsentIdDrag(todos, hist') => todos' = todos /\ pc' = "idle"]_vars

\* ids, text and completed flags, in master order.
Core(items) ==
    [i \in DOMAIN items |->
        [id |-> items[i].id, text |-> items[i].text, completed |-> items[i].completed]]

\* The latest mount replaced an instance whose collection was in the slot.
MountedFromSaved == hist.op = "mount" /\ hist.synced /\ pc = "idle"

\* C5: round trip: when an instance whose collection had been saved is
\* replaced by a fresh one, the fresh instance ends its mount with the same
\* ids, texts and completed flags in the same order (so also in the same
\* relative order within each partition).
C5_RoundTrip ==
    MountedFromSaved =>
        /\ Core(todos) = Core(hist.pre)
        /\ Core(ActiveTodos(todos)) = Core(ActiveTodos(hist.pre))
        /\ Core(CompletedTodos(todos)) = Core(CompletedTodos(hist.pre))

\* C5 witness: a collection with a completed record ahead of an active one
\* of smaller id has come back from the slot.
C5_Witness ==
    /\ MountedFromSaved
    /\ IdSeq(todos) = <<2, 3, 1>>
    /\ todos[1].completed /\ ~todos[3].completed

\* C6: whenever the component is waiting for a gesture and its latest write
\* did not fail, the slot holds the serialization of the whole in-memory
\* collection, also when an earlier write had failed.
C6_SlotHoldsCollection ==
    (pc = "idle" /\ ~saveFailed) => slot = JSONstringify(todos)

\* C6 witness: a write failed, a later one succeeded, and the slot holds a
\* collection with active and completed records.
C6_Witness ==
    /\ pc = "idle"
    /\ ~saveFailed
    /\ failures > 0
    /\ Len(ActiveTodos(todos)) > 0
    /\ Len(CompletedTodos(todos)) > 0
    /\ slot = JSONstringify(todos)

\* The load effect of the latest mount read a slot of one of these kinds.
LoadedKind(kinds) == hist.op = "mount" /\ hist.read \in kinds

\* C7 (as claimed): a slot holding JSON that is not an array of records is
\* treated like an absent slot: the collection starts empty and the
\* component does not crash.
C7_ShapeMismatchLoadsEmpty ==
    LoadedKind({"null", "object", "number", "string"}) =>
        /\ pc # "crashed"
        /\ (pc = "idle" => todos = <<>>)

\* C8: a slot that is absent, or whose text is not JSON, leaves the
\* collection empty and the component waiting for gestures, as after an
\* empty start: nothing queued, no timer, not crashed.
C8_AbsentOrUnparsableLoadsEmpty ==
    LoadedKind({"absent", "empty", "garbage"}) =>
        /\ pc = "idle"
        /\ todos = <<>>
        /\ update = NoUpdate
        /\ timers = <<>>

\* C8 witness: the load effect has read text that is not JSON.
C8_Witness == LoadedKind({"garbage"}) /\ pc = "idle"

\* The collection the operation recorded in h produces from `items`, whatever
\* became of the writes before it.
Produced(items, h) ==
    CASE h.op = "add"    -> IF Trim(h.text) = <<>> THEN items
                            ELSE AddTodoResult(items, h.text)
      [] h.op = "toggle" -> ToggleTodoResult(items, h.a)
      [] h.op = "timer"  -> TimerResult(items, h.a)
      [] h.op = "delete" -> DeleteTodoResult(items, h.a)
      [] h.op = "drag"   -> IF h.b = NoOver \/ h.a = h.b \/ DragEndThrows(items, h.a, h.b)
                            THEN items
                            ELSE DragEndResult(items, h.a, h.b)
      [] h.op = "mount"  -> IF pc = "commit" /\ ~RenderThrows(update)
                            THEN update.items
                            ELSE items

\* C9: a step whose write fails does not unmount the component, leaves the
\* slot as it was and leaves in memory the collection its operation
\* produced; and a step taken after a failed write produces from that
\* collection what it produces after a successful one.
C9_FailedWriteKeepsCollection ==
    [][/\ failures' = failures + 1 =>
            /\ pc' # "crashed"
            /\ slot' = slot
            /\ todos' = Produced(todos, hist')
       /\ saveFailed => todos' = Produced(todos, hist')]_vars

\* C9 witness: the write after an add has failed: the record is in memory
\* and not in the slot.
C9_Witness ==
    /\ saveFailed
    /\ hist.op = "add"
    /\ pc = "idle"
    /\ Len(todos) = 2
    /\ slot = JSONstringify(SubSeq(todos, 1, 1))

\* C10: no two records of the collection have the same id.
C10_UniqueIds == UniqueIds(todos)

\* C10 witness: after adds, a delete and a drag the collection holds ids 3
\* and 1, in that order.
C10_Witness == pc = "idle" /\ IdSeq(todos) = <<3, 1>>

\* C11: toggleTodo(id) keeps the size, the master order and every text; it
\* flips the completed flag of the record with that id and of no other
\* record (so of no record at all when no record has the id); and a second
\* toggleTodo(id) on the result gives back the ids, texts and completed
\* flags there were before the first.
C11_ToggleFlipsOne ==
    [][hist'.op = "toggle" =>
        /\ Len(todos') = Len(todos)
        /\ IdSeq(todos') = IdSeq(todos)
        /\ \A i \in DOMAIN todos :
              /\ todos'[i].text = todos[i].text
              /\ todos'[i].completed =
                    (IF todos[i].id = hist'.a THEN ~todos[i].completed
                                              ELSE todos[i].completed)
        /\ Core(ToggleTodoResult(todos', hist'.a)) = Core(todos)]_vars

\* C11 witness: a toggle has made a completed record active again, in a
\* collection that also holds a completed record.
C11_Witness ==
    /\ hist.op = "toggle"
    /\ hist.a \in IdsOf(todos)
    /\ ~CompletedOf(todos, hist.a)
    /\ todos[FindIndex(todos, hist.a)].isAnimating = "true"
    /\ Len(CompletedTodos(todos)) > 0
    /\ Len(todos) = 3

\* C12: deleteTodo(id) with a record of that id removes that record and no
\* other: the size drops by one and the other records stay as they were, in
\* their order; with no record of that id the collection stays as it was.
C12_DeleteRemovesOne ==
    [][hist'.op = "delete" =>
        IF hist'.a \in IdsOf(todos)
        THEN /\ Len(todos') = Len(todos) - 1
             /\ hist'.a \notin IdsOf(todos')
             /\ todos' = Without(todos, todos[FindIndex(todos, hist'.a)])
        ELSE todos' = todos]_vars

\* C12 witness: a delete has taken the middle record out of three.
C12_Witness ==
    /\ hist.op = "delete"
    /\ hist.a = 2
    /\ IdSeq(todos) = <<1, 3>>

\* A text of whitespace only (the empty text too).
Blank(text) == \A i \in DOMAIN text : text[i] = " "

\* C13: addTodo with a text that is empty or whitespace only changes
\* nothing: the collection and the slot are after it what they were before,
\* and nothing is raised.
C13_BlankAddChangesNothing ==
    [][(hist'.op = "add" /\ Blank(hist'.text)) =>
        /\ todos' = todos
        /\ slot' = slot
        /\ pc' = pc]_vars

\* C13 witness: two spaces have been submitted to a collection of two
\* records, which the slot holds.
C13_Witness ==
    /\ hist.op = "add"
    /\ hist.text = <<" ", " ">>
    /\ newTodo = <<" ", " ">>
    /\ Len(todos) = 2
    /\ slot = JSONstringify(todos)

\* The (id, text) pairs of the records.
IdTexts(items) == {<<items[i].id, items[i].text>> : i \in DOMAIN items}

\* C18: on a first visit (the collection starts empty) every record's text
\* holds a character that is not whitespace, in every reachable state; and
\* across every add, toggle, delete, reorder and timer callback a record
\* that stays keeps its id and its text: only a delete takes an (id, text)
\* pair away, that of its id, and only an add brings one, under a new id.
C18_TextAndIdImmutable ==
    /\ [](\A i \in DOMAIN todos : ~Blank(todos[i].text))
    /\ [][hist'.op \in {"add", "toggle", "timer", "delete", "drag"} =>
            /\ \A p \in IdTexts(todos) :
                  p \in IdTexts(todos') \/ (hist'.op = "delete" /\ p[1] = hist'.a)
            /\ \A p \in IdTexts(todos') :
                  p \in IdTexts(todos) \/ (hist'.op = "add" /\ p[1] \notin IdsOf(todos))]_vars

\* C18 witness: a timer callback has run on a collection whose records have
\* different texts, one of them padded with whitespace and toggled.
C18_Witness ==
    /\ hist.op = "timer"
    /\ Len(todos) = 3
    /\ todos[1].text = <<" ", "a", " ">>
    /\ todos[1].completed
    /\ todos[1].isAnimating = "false"
    /\ todos[2].text = <<"a">>

\* C14: a drag of a onto b, a # b, both records of one partition, is an
\* array-move on the master sequence: the record of a ends at the index b
\* had, the records between the two indices (b's included) move one slot
\* towards the index a left, and the records outside that range keep their
\* index; a drag of a onto a changes nothing.
C14_ArrayMoveOnMaster ==
    [][hist'.op = "drag" =>
        /\ hist'.a = hist'.b => todos' = todos
        /\ SamePartitionDrag(todos, hist') =>
              LET from == FindIndex(todos, hist'.a)
                  to   == FindIndex(todos, hist'.b)
              IN  /\ Len(todos') = Len(todos)
                  /\ todos'[to] = todos[from]
                  /\ \A i \in DOMAIN todos :
                        /\ (from < i /\ i <= to) => todos'[i - 1] = todos[i]
                        /\ (to <= i /\ i < from) => todos'[i + 1] = todos[i]
                        /\ ((i < from /\ i < to) \/ (i > from /\ i > to)) =>
                              todos'[i] = todos[i]]_vars

\* C14 witness: the first of three active records has been dragged onto the
\* last: the two others have moved up one slot.
C14_Witness ==
    /\ hist.op = "drag"
    /\ hist.a = 1 /\ hist.b = 3
    /\ IdSeq(todos) = <<2, 3, 1>>
    /\ \A i \in DOMAIN todos : ~todos[i].completed

\* C15 (as claimed): from a mount until the first gesture the slot never
\* holds a collection other than the one it held before the mount: no step
\* of the mount (the effects of the first render, the render of the loaded
\* collection) changes a slot that holds a collection.
C15_MountKeepsSlot ==
    [][(hist.op = "mount" /\ hist'.op = "mount" /\ slot.kind = "array") =>
        slot' = slot]_vars

\* C16 (as claimed): whatever handlers ran between toggleTodo(id) and the
\* callback of its timer, the callback leaves the ids, texts, completed
\* flags and master order those handlers produced; and when the record the
\* timer was started for has been deleted meanwhile, the callback changes
\* no record at all.
C16_TimerKeepsMutations ==
    [][hist'.op = "timer" =>
        /\ Core(todos') = Core(todos)
        /\ hist.gone[1] => todos' = todos]_vars

RecordsOf(seq) == {seq[i] : i \in DOMAIN seq}

\* The view lists records in the order the master sequence has them.
InMasterOrder(view, items) ==
    \A i, j \in DOMAIN view :
        i < j => FindIndex(items, view[i].id) < FindIndex(items, view[j].id)

\* The two views split the collection by the completed flag, in its order.
ViewsDerived(items) ==
    LET active == ActiveTodos(items)
        completed == CompletedTodos(items)
    IN  /\ \A i \in DOMAIN active : ~active[i].completed
        /\ \A i \in DOMAIN completed : completed[i].completed
        /\ IdsOf(active) \cap IdsOf(completed) = {}
        /\ Len(active) + Len(completed) = Len(items)
        /\ RecordsOf(active) \cup RecordsOf(completed) = RecordsOf(items)
        /\ InMasterOrder(active, items)
        /\ InMasterOrder(completed, items)

\* C17: in every reachable state the active and the completed view are
\* disjoint, hold between them exactly the records of the collection, each
\* in master order; and toggleTodo(id) of a present record keeps its master
\* index, takes it out of its view and shows it in the other one after the
\* records of that view that precede it in the master sequence, the other
\* records of both views staying in their order.
C17_ViewsDerivedFromMaster ==
    /\ []ViewsDerived(todos)
    /\ [][(hist'.op = "toggle" /\ hist'.a \in IdsOf(todos)) =>
            LET at == FindIndex(todos, hist'.a)
                was == todos[at].completed
            IN  /\ todos'[at].id = hist'.a
                /\ View(todos', was) = Without(View(todos, was), todos[at])
                /\ Without(View(todos', ~was), todos'[at]) = View(todos, ~was)
                /\ PosOf(View(todos', ~was), todos'[at]) =
                      1 + Cardinality({j \in 1 .. at - 1 : todos[j].completed # was})]_vars

\* C17 witness: the middle record of three has been toggled and shows in
\* the completed view between the two others.
C17_Witness ==
    /\ hist.op = "toggle"
    /\ Len(todos) = 3
    /\ hist.a = todos[2].id
    /\ IdSeq(CompletedTodos(todos)) = IdSeq(todos)
    /\ todos[2].isAnimating = "true"
    /\ todos[1].isAnimating = "false"

\* C19: the visibility flag is true from every mount until a gesture; a
\* handler of the collection (add, toggle, timer, delete, drag) leaves the
\* flag as it is; toggleCompletedVisibility negates the flag and leaves the
\* collection, the slot and the rest of the state as they are; and the slot
\* is only ever written with the serialized collection, which holds no
\* flag.
C19_VisibilityIndependent ==
    /\ [](hist.op = "mount" => showCompleted)
    /\ [][/\ hist'.op \in {"add", "toggle", "timer", "delete", "drag"} =>
               showCompleted' = showCompleted
          /\ hist'.op = "none" =>
               /\ showCompleted' = ~showCompleted
               /\ UNCHANGED <<todos, slot, newTodo, timers, pc>>
          /\ slot' = slot \/ slot' = JSONstringify(todos')]_vars

\* C19 witness: the completed section was hidden and a record has been
\* added since: the flag is still false, the slot holds the collection.
C19_Witness ==
    /\ ~showCompleted
    /\ hist.op = "add"
    /\ ~Blank(hist.text)
    /\ Len(todos) = 3
    /\ slot = JSONstringify(todos)

====
